---- MODULE Spec2Model ----
(***************************************************************************)
(* Level-up notification pipeline of the HUD:                              *)
(*   useLevelUpState   - subscription, queue and current-item slot         *)
(*   LevelUpNotification - fire-once audio/chat dispatcher and the         *)
(*                       periodic purge of the processed-timestamp set     *)
(*   isMilestoneLevel  - fanfare selection                                 *)
(*                                                                         *)
(* React state is modelled as it behaves: levelUpQueue / currentLevelUp    *)
(* are the hook state with every queued update applied in order, while     *)
(* renderedQueue / renderedCurrent are the values the last committed       *)
(* render closed over, which is what the passive effects read.             *)
(***************************************************************************)
EXTENDS Integers, Sequences, FiniteSets, TLC

\* ------------------------------------------------------------------ bounds
MaxEvents == 2          \* level-up events emitted by the event source
MaxTicks == 3           \* clock steps taken by the model
MinLevel == 12          \* isMilestoneLevel is applied to -MinLevel .. MaxLevel
MaxLevel == 1000
MaxSkillLen == 3        \* length of the strings given to the skill formatters

\* --------------------------------------------------------- program constants
threshold == 60000      \* retention window of processedRef, ms
PurgeInterval == 30000  \* setInterval period of the cleanup, ms

MILESTONE_LEVELS == <<10, 25, 50, 75, 99>>

\* The clock advances by one purge period at a time.
TimeStep == PurgeInterval
MaxTime == MaxTicks * TimeStep

\* ---------------------------------------------------------------- values
\* currentLevelUp === null
NoLevelUp == [id |-> 0, newLevel |-> 0, timestamp |-> 0]

\* newLevel of the emitted events
EventLevels == {10}

\* identities of the event objects
EventIds == 1 .. MaxEvents

\* no run of the dispatcher yet
NoDispatch == [id |-> 0, timestamp |-> 0, audio |-> "undefined",
               gain |-> <<>>, chat |-> "undefined", fanfare |-> "none",
               message |-> 0, broadcast |-> FALSE]

\* values Date.now() takes
Timestamps == {k * TimeStep : k \in 0 .. MaxTicks}

\* data.timestamp when the source supplies it; <<>> stands for "omitted"
SuppliedTimestamps == {<<>>, <<0>>}

\* the resolved audio / chat capability of a render (undefined or a system)
AudioValues == {"undefined", "clientAudio"}
ChatValues == {"undefined", "chat"}

\* audio.groupGains?.sfx?.gain?.value : <<>> when the chain yields undefined
GainValues == {<<>>, <<0>>, <<1>>}

VARIABLES
    levelUpQueue,      \* useState: queue, all queued updates applied
    currentLevelUp,    \* useState: current item, all queued updates applied
    renderedQueue,     \* levelUpQueue as seen by the last committed render
    renderedCurrent,   \* currentLevelUp as seen by the last committed render
    promotePending,    \* the queue-processing effect is scheduled
    dispatchPending,   \* the audio/chat effect is scheduled
    audio,             \* useMemo: resolved audio system of the last render
    chat,              \* useMemo: resolved chat system of the last render
    processedRef,      \* processedRef.current : set of timestamps
    now,               \* Date.now()
    nextPurge,         \* due time of the cleanup interval
    mounted,           \* the component is mounted
    world,             \* the event source (world prop) of the last render
    subscribedTo,      \* the source handleLevelUp is registered on, or "none"
    subscribePending,  \* the subscription effect is scheduled
    intervalArmed,     \* the cleanup interval is set and not cleared
    thrown,            \* capability call that threw inside the effect
    nextId,            \* identity of the next event object
    enqueued,          \* history: events enqueued by handleLevelUp
    shown,             \* history: events that became currentLevelUp
    dispatchCount,     \* history: runs of the dispatcher per event id
    lastDispatch,      \* history: the calls the dispatcher made in its last run
    purgeCount,        \* history: times each timestamp was purged
    enqueuedFrom,      \* history: the source that emitted each enqueued event
    mLevel, mResult, mDone,  \* isMilestoneLevel applied to one input
    skill, skillResult, skillDone, \* the skill formatters applied to one string
    hasWindow,         \* typeof window !== "undefined"
    hasTauri,          \* "__TAURI__" in window
    importOk,          \* the dynamic import of the @tauri-apps module resolves
    nativeOk,          \* the native call (invoke / openUrl / listen) resolves
    tauriOp,           \* the platform service that is called
    tauriResult,       \* what the returned promise settles to
    windowOpened,      \* window.open(url, "_blank") was called
    listenerRegistered, \* event.listen("deep-link", ...) registered the handler
    tauriDone          \* the call has settled

hookVars == <<levelUpQueue, currentLevelUp, renderedQueue, renderedCurrent,
              promotePending, dispatchPending>>
capVars == <<audio, chat>>
dispatchVars == <<dispatchCount, lastDispatch>>
histVars == <<enqueued, shown, dispatchVars, purgeCount>>
skillVars == <<skill, skillResult, skillDone>>
tauriEnv == <<hasWindow, hasTauri, importOk, nativeOk, tauriOp>>
tauriVars == <<tauriEnv, tauriResult, windowOpened, listenerRegistered, tauriDone>>
fnVars == <<mLevel, mResult, mDone, skillVars, tauriVars>>
lifeVars == <<world, subscribedTo, subscribePending, intervalArmed,
              enqueuedFrom>>
vars == <<hookVars, capVars, processedRef, now, nextPurge, mounted, thrown,
          nextId, histVars, fnVars, lifeVars>>

\* ------------------------------------------------------------ pure helpers
\* a range test in place of the membership test
isMilestoneLevelFrom99(level) ==
    \/ \E i \in DOMAIN MILESTONE_LEVELS : MILESTONE_LEVELS[i] = level
    \/ level > 99

\* MILESTONE_LEVELS.includes(level)
isMilestoneLevel(level) ==
    \E i \in DOMAIN MILESTONE_LEVELS : MILESTONE_LEVELS[i] = level

\* playLevelUpFanfare: which sound is played for a level
playLevelUpFanfare(level) ==
    IF isMilestoneLevel(level) THEN "milestone" ELSE "normal"

\* audio.groupGains?.sfx?.gain?.value ?? 1
sfxVolume(gain) == IF gain = <<>> THEN 1 ELSE gain[1]

\* data.timestamp ?? Date.now()
EventTimestamp(supplied) == IF supplied = <<>> THEN now ELSE supplied[1]

\* ------------------------------------------------------------------- Init
\* The component has mounted: both states are empty, the mount effects have
\* run (handler subscribed, cleanup interval armed at Date.now() = 0).
InitComponent ==
    /\ levelUpQueue = <<>>
    /\ currentLevelUp = NoLevelUp
    /\ renderedQueue = <<>>
    /\ renderedCurrent = NoLevelUp
    /\ promotePending = FALSE
    /\ dispatchPending = FALSE
    /\ audio \in AudioValues
    /\ chat \in ChatValues
    /\ processedRef = {}
    /\ now = 0
    /\ nextPurge = PurgeInterval
    /\ mounted = TRUE
    /\ thrown = "none"
    /\ nextId = 1
    /\ enqueued = <<>>
    /\ shown = <<>>
    /\ dispatchCount = [i \in EventIds |-> 0]
    /\ lastDispatch = NoDispatch
    /\ purgeCount = [ts \in Timestamps |-> 0]
    /\ world = "worldA"
    /\ subscribedTo = "worldA"
    /\ subscribePending = FALSE
    /\ intervalArmed = TRUE
    /\ enqueuedFrom = <<>>

\* no string has been given to the skill formatters
InitSkillIdle ==
    /\ skill = <<>>
    /\ skillResult = <<>>
    /\ skillDone = FALSE

\* no platform service has been called; a plain browser tab
InitTauriIdle ==
    /\ hasWindow = TRUE
    /\ hasTauri = FALSE
    /\ importOk = FALSE
    /\ nativeOk = FALSE
    /\ tauriOp = "getPlatformInfo"
    /\ tauriResult = "pending"
    /\ windowOpened = FALSE
    /\ listenerRegistered = FALSE
    /\ tauriDone = FALSE

Init ==
    /\ InitComponent
    /\ mLevel = 0
    /\ mResult = FALSE
    /\ mDone = FALSE
    /\ InitSkillIdle
    /\ InitTauriIdle
    /\ InitTauriIdle

\* ---------------------------------------------------- useLevelUpState.ts
\* [event].concat(prev): the new event goes to the head
EnqueueAtHead(prev, event) == <<event>> \o prev

\* prev.concat(event)
Enqueue(prev, event) == Append(prev, event)

\* handleLevelUp: the subscribed SKILLS_LEVEL_UP handler
handleLevelUp(level, supplied) ==
    /\ mounted
    /\ nextId <= MaxEvents
    /\ LET event == [id |-> nextId, newLevel |-> level,
                     timestamp |-> EventTimestamp(supplied)]
       IN /\ levelUpQueue' = Enqueue(levelUpQueue, event)
          /\ enqueued' = Append(enqueued, event)
    /\ nextId' = nextId + 1
    /\ UNCHANGED <<currentLevelUp, renderedQueue, renderedCurrent,
                   promotePending, dispatchPending, capVars, processedRef,
                   now, nextPurge, mounted, thrown, shown, dispatchVars,
                   purgeCount, fnVars>>

\* The source w emits SKILLS_LEVEL_UP: the bus calls the handlers that are
\* registered on it.
EmitLevelUp(w, level, supplied) ==
    /\ subscribedTo = w
    /\ handleLevelUp(level, supplied)
    /\ enqueuedFrom' = Append(enqueuedFrom, w)
    /\ UNCHANGED <<world, subscribedTo, subscribePending, intervalArmed>>

\* a dismiss that pulls the next event itself
dismissAndPromote ==
    /\ mounted
    /\ currentLevelUp' = IF levelUpQueue = <<>> THEN NoLevelUp
                         ELSE Head(levelUpQueue)
    /\ levelUpQueue' = IF levelUpQueue = <<>> THEN levelUpQueue
                       ELSE Tail(levelUpQueue)
    /\ UNCHANGED <<renderedQueue, renderedCurrent,
                   promotePending, dispatchPending, capVars, processedRef,
                   now, nextPurge, mounted, thrown, nextId, histVars, fnVars,
                   lifeVars>>

\* dismissLevelUp: setCurrentLevelUp(null)
dismissLevelUp ==
    /\ mounted
    /\ currentLevelUp' = NoLevelUp
    /\ UNCHANGED <<levelUpQueue, renderedQueue, renderedCurrent,
                   promotePending, dispatchPending, capVars, processedRef,
                   now, nextPurge, mounted, thrown, nextId, histVars, fnVars,
                   lifeVars>>

\* A render commits: the closures of this render see the state with every
\* queued update applied, and the resolved audio / chat systems a, c.
\* React renders when a state changed or the parent passed other systems,
\* and runs the passive effects of the previous commit before rendering.
\* An effect is scheduled when one of its dependencies changed.
Render(a, c) ==
    /\ mounted
    /\ ~promotePending /\ ~dispatchPending /\ ~subscribePending
    /\ \/ levelUpQueue # renderedQueue
       \/ currentLevelUp # renderedCurrent
       \/ a # audio
       \/ c # chat
    /\ renderedQueue' = levelUpQueue
    /\ renderedCurrent' = currentLevelUp
    /\ audio' = a
    /\ chat' = c
    /\ promotePending' = (\/ currentLevelUp # renderedCurrent
                          \/ levelUpQueue # renderedQueue)
    /\ dispatchPending' = (\/ currentLevelUp # renderedCurrent
                           \/ a # audio
                           \/ c # chat)
    /\ UNCHANGED <<levelUpQueue, currentLevelUp, processedRef, now,
                   nextPurge, mounted, thrown, nextId, histVars, fnVars,
                   lifeVars>>

\* an effect with no dependency: it never runs again
SubscriptionDepsNever(w) == FALSE

\* }, [world]) : the subscription effect is scheduled when world changed
SubscriptionDepsChanged(w) == w # world

\* The parent renders the component with another world.  The commit is a
\* render like any other; the subscription effect is scheduled with the
\* other effects, so until they run the handler stays on the old source.
ChangeSource(w, a, c) ==
    /\ mounted
    /\ ~promotePending /\ ~dispatchPending /\ ~subscribePending
    /\ w # world
    /\ world' = w
    /\ subscribePending' = SubscriptionDepsChanged(w)
    /\ renderedQueue' = levelUpQueue
    /\ renderedCurrent' = currentLevelUp
    /\ audio' = a
    /\ chat' = c
    /\ promotePending' = (\/ currentLevelUp # renderedCurrent
                          \/ levelUpQueue # renderedQueue)
    /\ dispatchPending' = (\/ currentLevelUp # renderedCurrent
                           \/ a # audio
                           \/ c # chat)
    /\ UNCHANGED <<levelUpQueue, currentLevelUp, processedRef, now,
                   nextPurge, mounted, thrown, nextId, histVars, fnVars,
                   subscribedTo, intervalArmed, enqueuedFrom>>

\* The subscription effect: the cleanup of its last run (world.off on the
\* old source), then world.on on the world of this render
SubscriptionEffect == IF subscribePending THEN world ELSE subscribedTo

\* if (!currentLevelUp && levelUpQueue.length > 0), on the render's values
ShouldPromote == renderedCurrent = NoLevelUp /\ Len(renderedQueue) > 0

\* levelUpQueue[0] and levelUpQueue.slice(1), on the render's values
PromotedItem == Head(renderedQueue)
RemainingQueue == Tail(renderedQueue)

\* The "process queue" effect
ProcessQueueEffect ==
    IF promotePending /\ ShouldPromote
    THEN /\ currentLevelUp' = PromotedItem
         /\ levelUpQueue' = RemainingQueue
         /\ shown' = Append(shown, PromotedItem)
    ELSE UNCHANGED <<currentLevelUp, levelUpQueue, shown>>

\* ------------------------------------------------ LevelUpNotification.tsx
\* the guard dropped: no timestamp counts as processed
AlreadyProcessedNever(timestamp) == FALSE

\* processedRef.current.has(timestamp)
AlreadyProcessed(timestamp) == timestamp \in processedRef

\* if (audio) { ... if (sfxVolume > 0)
AudioEnabled(gain) == audio # "undefined" /\ sfxVolume(gain) > 0

\* if (chat)
ChatEnabled == chat # "undefined"

\* The effect runs and gets past its two early returns
DispatchRuns ==
    /\ dispatchPending
    /\ renderedCurrent # NoLevelUp
    /\ ~AlreadyProcessed(renderedCurrent.timestamp)

\* The "play audio and send chat message" effect.  gain is the value read
\* from audio.groupGains?.sfx?.gain?.value; audioThrows / chatThrows say
\* whether audio.ready(...) / chat.add(...) throws.  Nothing catches it, so
\* the exception leaves the effect and React unmounts the component.
DispatchEffect(gain, audioThrows, chatThrows) ==
    LET ev == renderedCurrent
        run == DispatchRuns
        audioCall == run /\ AudioEnabled(gain)
        audioFail == audioCall /\ audioThrows
        chatCall == run /\ ~audioFail /\ ChatEnabled
        chatFail == chatCall /\ chatThrows
    IN /\ processedRef' = IF run THEN processedRef \cup {ev.timestamp}
                          ELSE processedRef
       /\ dispatchCount' = IF run
                            THEN [dispatchCount EXCEPT ![ev.id] = @ + 1]
                            ELSE dispatchCount
       /\ lastDispatch' =
            IF run
            THEN [id |-> ev.id, timestamp |-> ev.timestamp,
                  audio |-> audio, gain |-> gain, chat |-> chat,
                  fanfare |-> IF audioCall
                              THEN playLevelUpFanfare(ev.newLevel)
                              ELSE "none",
                  message |-> IF chatCall THEN ev.newLevel ELSE 0,
                  broadcast |-> FALSE]
            ELSE lastDispatch
       /\ thrown' = IF audioFail THEN "audio"
                    ELSE IF chatFail THEN "chat" ELSE thrown
       /\ mounted' = ~(audioFail \/ chatFail)

\* React runs the scheduled passive effects of the last commit, in the order
\* the hooks declare them, in one task.  The gain is read only when an audio
\* system is resolved, and a call can throw only when it is made.
FlushPassiveEffects ==
    /\ mounted
    /\ promotePending \/ dispatchPending \/ subscribePending
    /\ ProcessQueueEffect
    /\ \E gain \in (IF DispatchRuns /\ audio # "undefined"
                    THEN GainValues ELSE {<<>>}),
          audioThrows \in (IF DispatchRuns /\ audio # "undefined"
                           THEN BOOLEAN ELSE {FALSE}),
          chatThrows \in (IF DispatchRuns /\ ChatEnabled
                          THEN BOOLEAN ELSE {FALSE}) :
          DispatchEffect(gain, audioThrows, chatThrows)
    /\ promotePending' = FALSE
    /\ dispatchPending' = FALSE
    /\ subscribePending' = FALSE
    /\ subscribedTo' = IF mounted' THEN SubscriptionEffect ELSE "none"
    /\ intervalArmed' = (mounted' /\ intervalArmed)
    /\ UNCHANGED <<renderedQueue, renderedCurrent, capVars, now, nextPurge,
                   nextId, enqueued, purgeCount, fnVars, world, enqueuedFrom>>

\* React unmounts the component.  The effects of the last commit have run
\* before the parent's render is processed; the cleanups run: world.off
\* and clearInterval(cleanup).
Unmount ==
    /\ mounted
    /\ ~promotePending /\ ~dispatchPending /\ ~subscribePending
    /\ mounted' = FALSE
    /\ subscribedTo' = "none"
    /\ intervalArmed' = FALSE
    /\ UNCHANGED <<hookVars, capVars, processedRef, now, nextPurge, thrown,
                   nextId, histVars, fnVars, world, subscribePending,
                   enqueuedFrom>>

\* now - timestamp >= threshold
IsExpiredInclusive(t, timestamp) == t - timestamp >= threshold

\* now - timestamp > threshold
IsExpired(t, timestamp) == t - timestamp > threshold

\* setInterval(..., 30000): the next run is one period after this one
NextPurgeTime == nextPurge + PurgeInterval

\* The cleanup interval callback
PurgeTick ==
    /\ intervalArmed
    /\ now >= nextPurge
    /\ processedRef' = {ts \in processedRef : ~IsExpired(now, ts)}
    /\ purgeCount' = [ts \in Timestamps |->
                        IF ts \in processedRef /\ ts \notin processedRef'
                        THEN purgeCount[ts] + 1 ELSE purgeCount[ts]]
    /\ nextPurge' = NextPurgeTime
    /\ UNCHANGED <<hookVars, capVars, now, mounted, thrown, nextId, enqueued,
                   shown, dispatchVars, fnVars, lifeVars>>

\* ------------------------------------------------------------ environment
\* React has no scheduled work: no passive effect and no state update waits
ReactIdle ==
    /\ ~promotePending /\ ~dispatchPending /\ ~subscribePending
    /\ renderedQueue = levelUpQueue
    /\ renderedCurrent = currentLevelUp

\* The clock advances by one step.  A due interval callback runs before it
\* advances on, and so does the work React has scheduled: renders and
\* effects take milliseconds, a step is half a minute.
AdvanceTime ==
    /\ now + TimeStep <= MaxTime
    /\ intervalArmed => now < nextPurge
    /\ mounted => ReactIdle
    /\ now' = now + TimeStep
    /\ UNCHANGED <<hookVars, capVars, processedRef, nextPurge, mounted,
                   thrown, nextId, histVars, fnVars, lifeVars>>

Next ==
    \/ \E level \in EventLevels, supplied \in SuppliedTimestamps :
          EmitLevelUp(world, level, supplied)
    \/ dismissLevelUp
    \/ \E a \in AudioValues, c \in ChatValues : Render(a, c)
    \/ FlushPassiveEffects
    \/ PurgeTick
    \/ AdvanceTime

Spec == Init /\ [][Next]_vars

\* ---------------------------------------------------- component lifecycle
\* The component over its life: the parent may pass another world and may
\* unmount it, and any of the worlds may emit level-ups.  No world carries
\* a client audio system and all carry the same chat, so a render keeps
\* the resolved systems and the dispatcher makes the chat call only.
Worlds == {"worldA", "worldB"}

NextLifecycle ==
    \/ \E w \in Worlds, level \in EventLevels, supplied \in SuppliedTimestamps :
          EmitLevelUp(w, level, supplied)
    \/ dismissLevelUp
    \/ Render(audio, chat)
    \/ \E w \in Worlds : ChangeSource(w, audio, chat)
    \/ FlushPassiveEffects
    \/ Unmount
    \/ PurgeTick
    \/ AdvanceTime

InitLifecycle ==
    /\ Init
    /\ audio = "undefined"

SpecLifecycle == InitLifecycle /\ [][NextLifecycle]_vars

\* ------------------------------------------------------- isMilestoneLevel
\* isMilestoneLevel applied to one input level
LevelInputs == (0 - MinLevel) .. MaxLevel

InitMilestone ==
    /\ InitComponent
    /\ mLevel \in LevelInputs
    /\ mResult = FALSE
    /\ mDone = FALSE
    /\ InitSkillIdle
    /\ InitTauriIdle

ClassifyLevel ==
    /\ ~mDone
    /\ mResult' = isMilestoneLevel(mLevel)
    /\ mDone' = TRUE
    /\ UNCHANGED <<hookVars, capVars, processedRef, now, nextPurge, mounted,
                   thrown, nextId, histVars, mLevel, skillVars, tauriVars,
                   lifeVars>>

NextMilestone == ClassifyLevel

SpecMilestone == InitMilestone /\ [][NextMilestone]_vars

\* ----------------------------------- normalizeSkillName / capitalizeSkill
\* A string is a sequence of characters.  The letters a-z / A-Z map one to
\* one; U+00DF (sharp s) is a lower-case letter whose upper case is the two
\* characters "SS" (String.prototype.toUpperCase, Unicode SpecialCasing).
LowerLetters == <<"a", "b", "c", "d", "e", "f", "g", "h", "i", "j", "k", "l",
                  "m", "n", "o", "p", "q", "r", "s", "t", "u", "v", "w", "x",
                  "y", "z">>
UpperLetters == <<"A", "B", "C", "D", "E", "F", "G", "H", "I", "J", "K", "L",
                  "M", "N", "O", "P", "Q", "R", "S", "T", "U", "V", "W", "X",
                  "Y", "Z">>
SharpS == "U+00DF"

\* characters the class \s matches (space, tab, line feed among them)
WhitespaceChars == {" ", "\t", "\n"}

IsWhitespace(c) == c \in WhitespaceChars
IsAsciiUpper(c) == \E i \in DOMAIN UpperLetters : UpperLetters[i] = c
IsAsciiLower(c) == \E i \in DOMAIN LowerLetters : LowerLetters[i] = c
IsUpperCase(c) == IsAsciiUpper(c)
IsLowerCase(c) == IsAsciiLower(c) \/ c = SharpS

\* toLowerCase / toUpperCase of one character: a string
CharToLowerCase(c) ==
    IF IsAsciiUpper(c)
    THEN <<LowerLetters[CHOOSE i \in DOMAIN UpperLetters : UpperLetters[i] = c]>>
    ELSE <<c>>

CharToUpperCase(c) ==
    IF IsAsciiLower(c)
    THEN <<UpperLetters[CHOOSE i \in DOMAIN LowerLetters : LowerLetters[i] = c]>>
    ELSE IF c = SharpS THEN <<"S", "S">>
    ELSE <<c>>

\* String.prototype.toLowerCase / toUpperCase
RECURSIVE toLowerCase(_)
toLowerCase(s) ==
    IF s = <<>> THEN <<>> ELSE CharToLowerCase(Head(s)) \o toLowerCase(Tail(s))

RECURSIVE toUpperCase(_)
toUpperCase(s) ==
    IF s = <<>> THEN <<>> ELSE CharToUpperCase(Head(s)) \o toUpperCase(Tail(s))

\* s.replace(/\s+/g, ""): every maximal run of whitespace is replaced by
\* the empty string, which leaves the non-whitespace characters in order
RECURSIVE SkipWhitespaceRun(_)
SkipWhitespaceRun(s) ==
    IF s # <<>> /\ IsWhitespace(Head(s)) THEN SkipWhitespaceRun(Tail(s)) ELSE s

RECURSIVE ReplaceWhitespaceRuns(_)
ReplaceWhitespaceRuns(s) ==
    IF s = <<>> THEN <<>>
    ELSE IF IsWhitespace(Head(s)) THEN ReplaceWhitespaceRuns(SkipWhitespaceRun(s))
    ELSE <<Head(s)>> \o ReplaceWhitespaceRuns(Tail(s))

\* s.charAt(0) and s.slice(1)
CharAt0(s) == IF s = <<>> THEN <<>> ELSE <<Head(s)>>
Slice1(s) == IF s = <<>> THEN <<>> ELSE Tail(s)

\* lower-casing only: the whitespace stays
normalizeKeepWhitespace(s) == toLowerCase(s)

\* skill.toLowerCase().replace(/\s+/g, "")
normalizeSkillName(s) == ReplaceWhitespaceRuns(toLowerCase(s))

\* skill.charAt(0).toUpperCase() + skill.slice(1).toLowerCase()
capitalizeSkill(s) == toUpperCase(CharAt0(s)) \o toLowerCase(Slice1(s))

\* the strings the formatters are applied to: every string of at most
\* MaxSkillLen characters over SkillAlphabet, and "Hit Points"
SkillAlphabet == {"h", "H", "s", "S", " ", "\t", SharpS}
HitPoints == <<"H", "i", "t", " ", "P", "o", "i", "n", "t", "s">>
SkillInputs ==
    UNION {[1 .. n -> SkillAlphabet] : n \in 0 .. MaxSkillLen} \cup {HitPoints}

InitSkill ==
    /\ InitComponent
    /\ mLevel = 0
    /\ mResult = FALSE
    /\ mDone = FALSE
    /\ skill \in SkillInputs
    /\ skillResult = <<>>
    /\ skillDone = FALSE
    /\ InitTauriIdle

\* capitalizeSkill(normalizeSkillName(skill))
FormatSkill ==
    /\ ~skillDone
    /\ skillResult' = capitalizeSkill(normalizeSkillName(skill))
    /\ skillDone' = TRUE
    /\ UNCHANGED <<hookVars, capVars, processedRef, now, nextPurge, mounted,
                   thrown, nextId, histVars, mLevel, mResult, mDone, skill,
                   tauriVars, lifeVars>>

NextSkill == FormatSkill

SpecSkill == InitSkill /\ [][NextSkill]_vars

\* ------------------------------------------------ native-shell (Tauri) bridge
\* the exported platform services
TauriOps == {"getPlatformInfo", "openExternalUrl", "onDeepLink"}

\* a check of the window object alone
isTauriAppWindowOnly == hasWindow

\* typeof window !== "undefined" && "__TAURI__" in window
isTauriApp == hasWindow /\ hasTauri

\* getTauriEvent / getTauriCore / getTauriOpener: null unless isTauriApp()
\* and the dynamic import resolves (its rejection is caught).  TRUE stands
\* for the loaded API object, FALSE for null.
getTauriEvent == IF ~isTauriApp THEN FALSE ELSE importOk
getTauriCore == IF ~isTauriApp THEN FALSE ELSE importOk
getTauriOpener == IF ~isTauriApp THEN FALSE ELSE importOk

\* getPlatformInfo: what the promise settles to
getPlatformInfo ==
    IF ~getTauriCore THEN "null"
    ELSE IF nativeOk THEN "platformInfo" ELSE "null"

\* openExternalUrl: without an opener the code calls window.open, which is
\* a ReferenceError where no window object exists; nothing catches it, so
\* the promise rejects.
OpenerFallbackCallsWindowOpen == ~getTauriOpener /\ hasWindow

openExternalUrl ==
    IF ~getTauriOpener
    THEN IF hasWindow THEN "true" ELSE "rejected"
    ELSE IF nativeOk THEN "true" ELSE "false"

\* onDeepLink: what the promise settles to, and whether listen registered
onDeepLinkRegisters == getTauriEvent /\ nativeOk

onDeepLink ==
    IF ~getTauriEvent THEN "null"
    ELSE IF nativeOk THEN "unlisten" ELSE "null"

\* "__TAURI__" in window needs a window
InitTauri ==
    /\ InitComponent
    /\ mLevel = 0
    /\ mResult = FALSE
    /\ mDone = FALSE
    /\ InitSkillIdle
    /\ hasWindow \in BOOLEAN
    /\ hasTauri \in BOOLEAN
    /\ hasTauri => hasWindow
    /\ importOk \in BOOLEAN
    /\ nativeOk \in BOOLEAN
    /\ tauriOp \in TauriOps
    /\ tauriResult = "pending"
    /\ windowOpened = FALSE
    /\ listenerRegistered = FALSE
    /\ tauriDone = FALSE

\* one call of a platform service, run until its promise settles
CallPlatformService ==
    /\ ~tauriDone
    /\ tauriResult' = CASE tauriOp = "getPlatformInfo" -> getPlatformInfo
                         [] tauriOp = "openExternalUrl" -> openExternalUrl
                         [] tauriOp = "onDeepLink" -> onDeepLink
    /\ windowOpened' = (tauriOp = "openExternalUrl" /\ OpenerFallbackCallsWindowOpen)
    /\ listenerRegistered' = (tauriOp = "onDeepLink" /\ onDeepLinkRegisters)
    /\ tauriDone' = TRUE
    /\ UNCHANGED <<hookVars, capVars, processedRef, now, nextPurge, mounted,
                   thrown, nextId, histVars, mLevel, mResult, mDone, skillVars,
                   tauriEnv, lifeVars>>

NextTauri == CallPlatformService

SpecTauri == InitTauri /\ [][NextTauri]_vars

\* ================================================================= claims
\* Helpers over the histories
InQueue(e) == \E k \in DOMAIN levelUpQueue : levelUpQueue[k] = e
WasShown(e) == \E k \in DOMAIN shown : shown[k] = e
IsPrefix(a, b) == Len(a) <= Len(b) /\ a = SubSeq(b, 1, Len(a))

\* C1: the events that become currentLevelUp are, in order, exactly the
\* events handleLevelUp enqueued: what has been promoted so far is a prefix
\* of what was enqueued, and once the queue is empty every enqueued event
\* has been promoted.
C1_PromotedInArrivalOrder ==
    /\ IsPrefix(shown, enqueued)
    /\ levelUpQueue = <<>> => shown = enqueued

\* C2: every enqueued event is in exactly one place: waiting in
\* levelUpQueue, held as currentLevelUp, or already shown and dismissed.
C2_ExactlyOnePlace ==
    \A k \in DOMAIN enqueued :
        LET e == enqueued[k]
        IN \/ InQueue(e) /\ currentLevelUp # e /\ ~WasShown(e)
           \/ ~InQueue(e) /\ currentLevelUp = e /\ WasShown(e)
           \/ ~InQueue(e) /\ currentLevelUp # e /\ WasShown(e)

\* Runs of the dispatcher (past the has() guard) for the events carrying
\* timestamp ts; the event with id k is enqueued[k].
RECURSIVE RunsAmong(_, _)
RunsAmong(k, ts) ==
    IF k = 0 THEN 0
    ELSE RunsAmong(k - 1, ts) +
         (IF enqueued[k].timestamp = ts THEN dispatchCount[k] ELSE 0)
RunsFor(ts) == RunsAmong(Len(enqueued), ts)

\* An item is displayed and the effects of its render have run
Displayed ==
    /\ mounted
    /\ renderedCurrent # NoLevelUp
    /\ ~dispatchPending

\* C3: at-most-once dispatch.  As long as no purge has removed a timestamp,
\* the dispatcher runs at most once for it, whatever number of events carry
\* it; and when an item is displayed, the dispatcher has run exactly once
\* for its timestamp (for the first event that carried it).
C3_AtMostOnceDispatch ==
    /\ \A ts \in Timestamps : purgeCount[ts] = 0 => RunsFor(ts) <= 1
    /\ (Displayed /\ purgeCount[renderedCurrent.timestamp] = 0)
          => RunsFor(renderedCurrent.timestamp) = 1

\* Two events with one timestamp were displayed one after the other; the
\* dispatcher ran for the first (fanfare and message) and not for the second.
C3_Witness ==
    /\ Displayed
    /\ \E i \in EventIds :
          /\ i < renderedCurrent.id
          /\ enqueued[i].timestamp = renderedCurrent.timestamp
          /\ dispatchCount[i] = 1
          /\ lastDispatch.id = i
          /\ lastDispatch.fanfare # "none"
          /\ lastDispatch.message # 0
    /\ dispatchCount[renderedCurrent.id] = 0
    /\ purgeCount[renderedCurrent.timestamp] = 0

\* C4 as stated: the dispatcher fires at most once for an item, whatever
\* re-runs of the effect and purge ticks happen while it is current.
C4_FiresOncePerItem ==
    \A i \in EventIds : dispatchCount[i] <= 1

\* C4 as amended: while the displayed item's timestamp is in processedRef,
\* no step fires the dispatcher for it again; an item fires at most once
\* more than the number of times its timestamp was purged.
C4_NoRefireWhileProcessed ==
    /\ [](\A i \in DOMAIN enqueued :
            dispatchCount[i] <= 1 + purgeCount[enqueued[i].timestamp])
    /\ [][(/\ renderedCurrent # NoLevelUp
           /\ dispatchCount[renderedCurrent.id] >= 1
           /\ renderedCurrent.timestamp \in processedRef)
          => dispatchCount'[renderedCurrent.id]
                = dispatchCount[renderedCurrent.id]]_vars

\* The displayed item was dispatched once, purge ticks have run, and the
\* effect has re-run under another audio or chat system without firing.
C4_Witness ==
    /\ Displayed
    /\ dispatchCount[renderedCurrent.id] = 1
    /\ lastDispatch.id = renderedCurrent.id
    /\ renderedCurrent.timestamp \in processedRef
    /\ audio # lastDispatch.audio \/ chat # lastDispatch.chat
    /\ nextPurge > PurgeInterval

\* C5: a capability call that throws is swallowed: the component stays
\* mounted, so dismissLevelUp and promotion keep working.
C5_FailureSwallowed ==
    thrown # "none" => mounted

\* C6: dismissLevelUp sets currentLevelUp to none and touches neither
\* levelUpQueue nor processedRef; called with no current item it changes
\* nothing at all (so a second call in a row changes nothing), and it never
\* makes an item current.
C6_DismissIdempotent ==
    [][dismissLevelUp =>
          /\ currentLevelUp' = NoLevelUp
          /\ levelUpQueue' = levelUpQueue
          /\ processedRef' = processedRef
          /\ shown' = shown
          /\ currentLevelUp = NoLevelUp => UNCHANGED vars]_vars

\* Idle after a dismiss: an item was shown and dismissed, the render and the
\* queue-processing effect that follow have run on the empty queue, and no
\* item is current.
C6_Witness ==
    /\ mounted
    /\ Len(shown) >= 1
    /\ currentLevelUp = NoLevelUp
    /\ renderedCurrent = NoLevelUp
    /\ levelUpQueue = <<>>
    /\ renderedQueue = <<>>
    /\ ~promotePending

\* C7: an arrival leaves currentLevelUp alone and appends the new event to
\* the tail of levelUpQueue; a current item is only ever replaced by none,
\* and an item becomes current only from none, as the head of the queue,
\* which is then removed.
C7_ArrivalKeepsCurrent ==
    [][/\ enqueued' # enqueued =>
             /\ currentLevelUp' = currentLevelUp
             /\ renderedCurrent' = renderedCurrent
             /\ levelUpQueue' = Append(levelUpQueue, enqueued'[Len(enqueued')])
       /\ (currentLevelUp # NoLevelUp /\ currentLevelUp' # currentLevelUp)
             => currentLevelUp' = NoLevelUp
       /\ (currentLevelUp' # NoLevelUp /\ currentLevelUp' # currentLevelUp)
             => /\ levelUpQueue # <<>>
                /\ currentLevelUp' = Head(levelUpQueue)
                /\ ~InQueue(currentLevelUp)'
       /\ (renderedCurrent # NoLevelUp /\ renderedCurrent' # renderedCurrent)
             => renderedCurrent' = NoLevelUp]_vars

\* An item is displayed, and an event that arrived after the render that
\* displays it waits in the queue.
C7_Witness ==
    /\ Displayed
    /\ ~promotePending
    /\ currentLevelUp = renderedCurrent
    /\ levelUpQueue # renderedQueue
    /\ Len(levelUpQueue) = Len(renderedQueue) + 1

\* C8: the purge runs when its interval is due, every 30000 ms; a run
\* removes exactly the timestamps more than 60000 ms old; when the
\* dispatcher meets a displayed item whose timestamp is not in processedRef
\* (never seen, or purged) it runs for it and adds the timestamp.
C8_Retention ==
    [][/\ nextPurge' # nextPurge =>
             /\ now = nextPurge
             /\ nextPurge' = nextPurge + 30000
             /\ processedRef' = {ts \in processedRef : now - ts <= 60000}
       /\ nextPurge' = nextPurge => processedRef \subseteq processedRef'
       /\ (/\ mounted /\ dispatchPending /\ ~dispatchPending'
           /\ renderedCurrent # NoLevelUp
           /\ renderedCurrent.timestamp \notin processedRef)
             => /\ renderedCurrent.timestamp \in processedRef'
                /\ dispatchCount'[renderedCurrent.id]
                      = dispatchCount[renderedCurrent.id] + 1]_vars

\* A timestamp was dispatched, purged, and dispatched again for a later
\* event that carries it; it is back in processedRef.
C8_Witness ==
    /\ Displayed
    /\ purgeCount[renderedCurrent.timestamp] >= 1
    /\ renderedCurrent.timestamp \in processedRef
    /\ dispatchCount[renderedCurrent.id] = 1
    /\ \E i \in EventIds :
          /\ i < renderedCurrent.id
          /\ enqueued[i].timestamp = renderedCurrent.timestamp
          /\ dispatchCount[i] = 1

\* C9: a run of the dispatcher calls audio.ready with the fanfare iff an
\* audio system is resolved and its gain (1 when unreadable) is positive,
\* calls chat.add, not broadcast, iff a chat system is resolved, each
\* whatever the other channel does, and has added the timestamp.
C9_ChannelsIndependent ==
    lastDispatch.id # 0 =>
        /\ lastDispatch.fanfare # "none"
              <=> (/\ lastDispatch.audio # "undefined"
                   /\ (lastDispatch.gain = <<>> \/ lastDispatch.gain[1] > 0))
        /\ lastDispatch.message # 0 <=> lastDispatch.chat # "undefined"
        /\ lastDispatch.broadcast = FALSE
        /\ dispatchCount[lastDispatch.id] >= 1

\* C10: isMilestoneLevel(level) is true exactly for 10, 25, 50, 75 and 99.
C10_MilestoneLevels ==
    mDone => (mResult <=> mLevel \in {10, 25, 50, 75, 99})

\* isMilestoneLevel(99) was computed and is true
C10_Witness ==
    mDone /\ mLevel = 99 /\ mResult

\* Helpers over strings
NoWhitespaceIn(s) == \A k \in DOMAIN s : ~IsWhitespace(s[k])
OnlyWhitespace(s) == \A k \in DOMAIN s : IsWhitespace(s[k])
Capitalized(s) ==
    /\ s # <<>> => IsUpperCase(s[1])
    /\ \A k \in DOMAIN s : k > 1 => IsLowerCase(s[k])
AsciiLettersAndWhitespace(s) ==
    \A k \in DOMAIN s : IsAsciiUpper(s[k]) \/ IsAsciiLower(s[k]) \/ IsWhitespace(s[k])
FormattedAsClaimed ==
    /\ NoWhitespaceIn(skillResult)
    /\ Capitalized(skillResult)
    /\ OnlyWhitespace(skill) => skillResult = <<>>
    /\ skill = HitPoints =>
         skillResult = <<"H", "i", "t", "p", "o", "i", "n", "t", "s">>

\* C11 as stated: for every string of upper / lower case letters and
\* whitespace, capitalizeSkill(normalizeSkillName(s)) has no whitespace,
\* starts in upper case, continues in lower case, is empty when s is blank,
\* and "Hit Points" gives "Hitpoints".
C11_CapitalizedNormalized == skillDone => FormattedAsClaimed

\* C11 amended: the same holds for every string of the letters a-z, A-Z
\* and whitespace characters.
C11_AsciiCapitalizedNormalized ==
    skillDone /\ AsciiLettersAndWhitespace(skill) => FormattedAsClaimed

\* "Hit Points" has been formatted to "Hitpoints"
C11_Witness ==
    /\ skillDone
    /\ skill = HitPoints
    /\ skillResult = <<"H", "i", "t", "p", "o", "i", "n", "t", "s">>

\* the native-shell layer is not present: isTauriApp() is false, or the
\* native module fails to load
NoNativeLayer == ~(hasWindow /\ hasTauri) \/ ~importOk

\* C12 as stated: without the native layer no platform service throws,
\* getPlatformInfo resolves to null, onDeepLink resolves to null without
\* registering the handler, and openExternalUrl resolves to its failure
\* value (false).
C12_AbsentWithoutNative ==
    tauriDone /\ NoNativeLayer =>
        /\ tauriResult # "rejected"
        /\ tauriOp = "getPlatformInfo" => tauriResult = "null"
        /\ tauriOp = "onDeepLink" => tauriResult = "null" /\ ~listenerRegistered
        /\ tauriOp = "openExternalUrl" => tauriResult = "false"

\* C12 amended: without the native layer getPlatformInfo resolves to null
\* and onDeepLink resolves to null without registering the handler, and
\* neither throws; openExternalUrl falls back to window.open and resolves
\* to true, and rejects where no window object exists.
C12_FallbackWithoutNative ==
    tauriDone /\ NoNativeLayer =>
        /\ tauriOp = "getPlatformInfo" => tauriResult = "null"
        /\ tauriOp = "onDeepLink" => tauriResult = "null" /\ ~listenerRegistered
        /\ tauriOp = "openExternalUrl" =>
             /\ hasWindow => tauriResult = "true" /\ windowOpened
             /\ ~hasWindow => tauriResult = "rejected" /\ ~windowOpened

\* openExternalUrl has fallen back to window.open in a plain browser tab
C12_Witness ==
    /\ tauriDone
    /\ NoNativeLayer
    /\ tauriOp = "openExternalUrl"
    /\ hasWindow
    /\ windowOpened
    /\ tauriResult = "true"

\* C13 as stated, first clause: at any time exactly the current event
\* source has handleLevelUp subscribed while the component is mounted, and
\* after teardown no source has it and the purge timer is canceled.
C13_CurrentSourceSubscribed ==
    /\ mounted => subscribedTo = world
    /\ ~mounted => subscribedTo = "none" /\ ~intervalArmed

\* the promotion effect's own writes
PromotionWrites ==
    /\ promotePending /\ ShouldPromote
    /\ currentLevelUp' = PromotedItem
    /\ levelUpQueue' = RemainingQueue

\* C13 amended: once the effects of the last render have run, exactly the
\* current source has the handler; between the render that receives a new
\* source and its effects the handler is still on the previous source.  An
\* event is enqueued only when the source that has the handler emits it.
\* Neither the render with the new source nor the re-subscription writes
\* levelUpQueue or currentLevelUp (the promotion effect of that render may).
\* After teardown no source has the handler, the timer is canceled, and no
\* enqueue and no purge tick occurs.
C13_SubscriptionLifecycle ==
    /\ [](mounted /\ ~subscribePending => subscribedTo = world)
    /\ [](mounted /\ subscribePending =>
            subscribedTo \in Worlds /\ subscribedTo # world)
    /\ [](~mounted => subscribedTo = "none" /\ ~intervalArmed)
    /\ [][Len(enqueued') > Len(enqueued) =>
            /\ mounted
            /\ enqueuedFrom' = Append(enqueuedFrom, subscribedTo)
            /\ levelUpQueue' = Append(levelUpQueue, enqueued'[Len(enqueued')])]_vars
    /\ [][world' # world =>
            levelUpQueue' = levelUpQueue /\ currentLevelUp' = currentLevelUp]_vars
    /\ [][subscribedTo' # subscribedTo /\ mounted' =>
            \/ levelUpQueue' = levelUpQueue /\ currentLevelUp' = currentLevelUp
            \/ PromotionWrites]_vars
    /\ [][~mounted => UNCHANGED <<enqueued, levelUpQueue, currentLevelUp,
                                  processedRef, nextPurge, purgeCount>>]_vars

\* the parent passed worldB, the handler moved to it and one of its events
\* was enqueued after one of worldA; then the component was unmounted
C13_Witness ==
    /\ ~mounted
    /\ thrown = "none"
    /\ world = "worldB"
    /\ subscribedTo = "none"
    /\ ~intervalArmed
    /\ enqueuedFrom = <<"worldA", "worldB">>

\* the machine rests in Idle: nothing is current and React has no work left
RestsIdle == mounted /\ ReactIdle /\ currentLevelUp = NoLevelUp

\* C14, in the form a finite run refutes: an event becomes currentLevelUp
\* only by promotion from levelUpQueue, so while the component is mounted
\* every enqueued event that has not yet become current is still waiting
\* in levelUpQueue (otherwise it never becomes current, however fair the
\* promotion and however promptly items are dismissed), and the machine
\* never rests in Idle with a non-empty levelUpQueue.
C14_EnqueuedReachesSlot ==
    /\ mounted => \A k \in DOMAIN enqueued :
                     WasShown(enqueued[k]) \/ InQueue(enqueued[k])
    /\ RestsIdle => levelUpQueue = <<>>

====
